---- MODULE Spec2Model ----
(***************************************************************************)
(* Model of maxcul/climate.py: the MaxThermostat climate entity, its       *)
(* update handler, and the commands it issues to the maxcul connection.    *)
(*                                                                         *)
(* Temperatures are counted in half degrees Celsius (the resolution of the *)
(* MAX! protocol), so 4.5 C is 9 and 30.5 C is 61.  A Python value that    *)
(* may be None is modelled as a tuple: None is <<>> and a value v is <<v>>.*)
(***************************************************************************)
EXTENDS Integers, Sequences, FiniteSets, TLC

None == <<>>
Some(v) == <<v>>

\* ---- constants imported from the maxcul library ------------------------
MIN_TEMPERATURE == 9
MAX_TEMPERATURE == 61

MODE_AUTO == "auto"
MODE_MANUAL == "manual"
MODE_BOOST == "boost"
\* a fourth mode the MAX! devices report, outside {auto, manual, boost}
MODE_TEMPORARY == "temporary"

\* ---- constants imported from homeassistant.components.climate.const ----
HVAC_MODE_AUTO == "hvac_auto"
HVAC_MODE_HEAT == "hvac_heat"
HVAC_MODE_OFF == "hvac_off"
PRESET_BOOST == "preset_boost"
PRESET_NONE == "preset_none"

\* ---- the finite universe the inputs are drawn from ---------------------
\* keys of config[CONF_DEVICES]; one entity is built per key
Keys == {"k1", "k2"}
\* values of device[CONF_ID]
DeviceIds == {1, 2}
\* the platform configurations: the devices dictionary (possibly without
\* the CONF_DEVICES key at all, which is NoDevices)
\* the order in which config[CONF_DEVICES].items() yields the keys
KeyOrder == <<"k1", "k2">>
\* the platform configurations: None when the configuration has no
\* CONF_DEVICES key, else the devices dictionary (key -> CONF_ID); two keys
\* may name the same device id
Configs ==
    {None,
     Some([k \in {"k1"} |-> 1]),
     Some([k \in Keys |-> IF k = "k1" THEN 1 ELSE 2]),
     Some([k \in Keys |-> 2])}

\* measured temperatures a device reports
MeasuredSpan == 1
MeasuredTemps == 40 .. (40 + MeasuredSpan - 1)
\* desired temperatures a device reports (inside the protocol range)
DesiredTemps == {MIN_TEMPERATURE, 42}
\* temperatures a caller may request through the host
RequestedTemps == {MIN_TEMPERATURE - 1, 42, MAX_TEMPERATURE + 1}
ValidModes == {MODE_AUTO, MODE_MANUAL, MODE_BOOST}
ReportedModes == ValidModes \cup {MODE_TEMPORARY}

Opt(S) == {None} \cup {Some(v) : v \in S}

\* the payloads of SIGNAL_THERMOSTAT_UPDATE: device 1 reports every
\* combination of fields, device 2 only ever reports one measured
\* temperature
Payloads ==
    [device_id : {1},
     measured_temperature : Opt(MeasuredTemps),
     desired_temperature : Opt(DesiredTemps),
     mode : Opt(ReportedModes),
     battery_low : Opt(BOOLEAN)]
    \cup
    [device_id : {2},
     measured_temperature : Opt({40}),
     desired_temperature : {None},
     mode : {None},
     battery_low : {None}]
NoPayload ==
    [device_id |-> 0, measured_temperature |-> None,
     desired_temperature |-> None, mode |-> None, battery_low |-> None]

VARIABLES
    config,                   \* config[CONF_DEVICES] handed to setup_platform
    setup_done,               \* setup_platform has run
    entities,                 \* keys whose MaxThermostat has been constructed
    self_device_id,           \* MaxThermostat._device_id, per entity
    self_current_temperature, \* MaxThermostat._current_temperature
    self_target_temperature,  \* MaxThermostat._target_temperature
    self_mode,                \* MaxThermostat._mode
    self_battery_low,         \* MaxThermostat._battery_low
    subscribers,              \* entities whose update handler is connected
    woken,                    \* entities whose wakeup request has been sent
    paired,                   \* ids the connection got via add_paired_device
    all_modes_valid,          \* no update so far carried a mode outside ValidModes
    last                      \* the operation just performed and its effects

vars == <<config, setup_done, entities, self_device_id, self_current_temperature,
          self_target_temperature, self_mode, self_battery_low,
          subscribers, woken, paired, all_modes_valid, last>>

cache == <<self_current_temperature, self_target_temperature, self_mode,
           self_battery_low>>

\* a call on the maxcul connection object
Call(fn, id, temperature, mode) ==
    [fn |-> fn, device_id |-> id, temperature |-> temperature, mode |-> mode]

\* the record of one operation: its name, the entity it ran on, its
\* arguments, the calls it made on the connection, and the entities for
\* which it called async_schedule_update_ha_state
Op(op, ent, temperature, arg, payload, calls, scheduled) ==
    [op |-> op, ent |-> ent, temperature |-> temperature, arg |-> arg,
     payload |-> payload, calls |-> calls, scheduled |-> scheduled]

Init ==
    /\ config \in Configs
    /\ setup_done = FALSE
    /\ entities = {}
    /\ self_device_id = [k \in Keys |-> 0]
    /\ self_current_temperature = [k \in Keys |-> None]
    /\ self_target_temperature = [k \in Keys |-> None]
    /\ self_mode = [k \in Keys |-> None]
    /\ self_battery_low = [k \in Keys |-> FALSE]
    /\ subscribers = {}
    /\ woken = {}
    /\ paired = {}
    /\ all_modes_valid = TRUE
    /\ last = Op("none", "", None, "", NoPayload, <<>>, {})

\* ---- MaxThermostat.__init__ --------------------------------------------
\* a constructor that forgets to pair the device
MaxThermostat_init_unpaired(device_id) ==
    [device_id |-> device_id,
     current_temperature |-> None,
     target_temperature |-> None,
     mode |-> None,
     battery_low |-> FALSE,
     calls |-> <<>>]

\* the fields of a new entity and the calls its constructor makes
MaxThermostat_init(device_id) ==
    [device_id |-> device_id,
     current_temperature |-> None,
     target_temperature |-> None,
     mode |-> None,
     battery_low |-> FALSE,
     calls |-> <<Call("add_paired_device", device_id, None, "")>>]

RECURSIVE Concat(_)
Concat(ss) == IF ss = <<>> THEN <<>> ELSE Head(ss) \o Concat(Tail(ss))

IdsOf(calls, fn) ==
    {calls[i].device_id : i \in {j \in DOMAIN calls : calls[j].fn = fn}}

\* ---- setup_platform ----------------------------------------------------
setup_platform ==
    /\ ~setup_done
    /\ setup_done' = TRUE
    /\ IF config = None
       THEN /\ UNCHANGED <<entities, self_device_id, cache, paired>>
            /\ last' = Op("setup_platform", "", None, "", NoPayload, <<>>, {})
       ELSE LET devices == config[1]
                order == SelectSeq(KeyOrder, LAMBDA k : k \in DOMAIN devices)
                built == [k \in DOMAIN devices |->
                             MaxThermostat_init(devices[k])]
                calls == Concat([i \in DOMAIN order |-> built[order[i]].calls])
                Field(old, f(_)) ==
                    [k \in Keys |->
                        IF k \in DOMAIN devices THEN f(built[k]) ELSE old[k]]
            IN  /\ entities' = DOMAIN devices
                /\ self_device_id' =
                       Field(self_device_id, LAMBDA b : b.device_id)
                /\ self_current_temperature' =
                       Field(self_current_temperature,
                             LAMBDA b : b.current_temperature)
                /\ self_target_temperature' =
                       Field(self_target_temperature,
                             LAMBDA b : b.target_temperature)
                /\ self_mode' = Field(self_mode, LAMBDA b : b.mode)
                /\ self_battery_low' =
                       Field(self_battery_low, LAMBDA b : b.battery_low)
                /\ paired' = paired \cup IdsOf(calls, "add_paired_device")
                /\ last' = Op("setup_platform", "", None, "", NoPayload,
                              calls, {})
    /\ UNCHANGED <<config, subscribers, woken, all_modes_valid>>

\* ---- MaxThermostat.async_added_to_hass ---------------------------------
\* the coroutine first connects the update handler to the signal ...
async_dispatcher_connect(k) ==
    /\ k \in entities
    /\ k \notin subscribers
    /\ subscribers' = subscribers \cup {k}
    /\ last' = Op("async_dispatcher_connect", k, None, "", NoPayload,
                  <<>>, {})
    /\ UNCHANGED <<config, setup_done, entities, self_device_id, cache,
                   woken, paired, all_modes_valid>>

\* the two statements the other way round
async_added_to_hass_steps_swapped == <<"wakeup", "async_dispatcher_connect">>

\* the statements of async_added_to_hass, in program order
async_added_to_hass_steps == <<"async_dispatcher_connect", "wakeup">>

\* the entities that have executed the given statement
Done(step) ==
    IF step = "async_dispatcher_connect" THEN subscribers ELSE woken

\* the entities whose coroutine is about to execute the given statement
ReadyFor(step) ==
    IF step = async_added_to_hass_steps[1]
    THEN entities \ Done(async_added_to_hass_steps[1])
    ELSE Done(async_added_to_hass_steps[1]) \ Done(async_added_to_hass_steps[2])

\* ... and then asks the device to report its state
wakeup(k) ==
    /\ k \in entities
    /\ k \notin woken
    /\ woken' = woken \cup {k}
    /\ last' = Op("wakeup", k, None, "", NoPayload,
                  <<Call("wakeup", self_device_id[k], None, "")>>, {})
    /\ UNCHANGED <<config, setup_done, entities, self_device_id, cache,
                   subscribers, paired, all_modes_valid>>

async_added_to_hass(k) ==
    \/ k \in ReadyFor("async_dispatcher_connect") /\ async_dispatcher_connect(k)
    \/ k \in ReadyFor("wakeup") /\ wakeup(k)

\* ---- MaxThermostat.async_added_to_hass.update --------------------------
\* the fields of entity k as the handler sees them
Self(k) ==
    [device_id |-> self_device_id[k],
     current_temperature |-> self_current_temperature[k],
     target_temperature |-> self_target_temperature[k],
     mode |-> self_mode[k],
     battery_low |-> self_battery_low[k]]

\* a handler that stores the payload's mode even when it is absent
update_overwriting(self, payload) ==
    IF payload.device_id # self.device_id
    THEN [current_temperature |-> self.current_temperature,
          target_temperature |-> self.target_temperature,
          mode |-> self.mode,
          battery_low |-> self.battery_low,
          scheduled |-> FALSE]
    ELSE [current_temperature |->
              IF payload.measured_temperature # None
              THEN payload.measured_temperature
              ELSE self.current_temperature,
          target_temperature |->
              IF payload.desired_temperature # None
              THEN payload.desired_temperature
              ELSE self.target_temperature,
          mode |-> payload.mode,
          battery_low |->
              IF payload.battery_low # None
              THEN payload.battery_low[1]
              ELSE self.battery_low,
          scheduled |-> TRUE]

\* a handler that does not look at the payload's device id
update_unfiltered(self, payload) ==
    [current_temperature |->
         IF payload.measured_temperature # None
         THEN payload.measured_temperature
         ELSE self.current_temperature,
     target_temperature |->
         IF payload.desired_temperature # None
         THEN payload.desired_temperature
         ELSE self.target_temperature,
     mode |->
         IF payload.mode # None THEN payload.mode ELSE self.mode,
     battery_low |->
         IF payload.battery_low # None
         THEN payload.battery_low[1]
         ELSE self.battery_low,
     scheduled |-> TRUE]

\* the handler applied to an entity: its fields afterwards, and whether
\* async_schedule_update_ha_state was called
update(self, payload) ==
    IF payload.device_id # self.device_id
    THEN [current_temperature |-> self.current_temperature,
          target_temperature |-> self.target_temperature,
          mode |-> self.mode,
          battery_low |-> self.battery_low,
          scheduled |-> FALSE]
    ELSE [current_temperature |->
              IF payload.measured_temperature # None
              THEN payload.measured_temperature
              ELSE self.current_temperature,
          target_temperature |->
              IF payload.desired_temperature # None
              THEN payload.desired_temperature
              ELSE self.target_temperature,
          mode |->
              IF payload.mode # None THEN payload.mode ELSE self.mode,
          battery_low |->
              IF payload.battery_low # None
              THEN payload.battery_low[1]
              ELSE self.battery_low,
          scheduled |-> TRUE]

\* the dispatcher delivers one SIGNAL_THERMOSTAT_UPDATE payload to every
\* connected handler
dispatch(payload) ==
    LET after == [k \in Keys |-> update(Self(k), payload)]
        Field(old, f(_)) ==
            [k \in Keys |-> IF k \in subscribers THEN f(after[k]) ELSE old[k]]
    IN  /\ setup_done
        /\ self_current_temperature' =
               Field(self_current_temperature,
                     LAMBDA u : u.current_temperature)
        /\ self_target_temperature' =
               Field(self_target_temperature, LAMBDA u : u.target_temperature)
        /\ self_mode' = Field(self_mode, LAMBDA u : u.mode)
        /\ self_battery_low' =
               Field(self_battery_low, LAMBDA u : u.battery_low)
        /\ all_modes_valid' =
               (all_modes_valid
                /\ (payload.mode = None \/ payload.mode[1] \in ValidModes))
        /\ last' = Op("update", "", None, "", payload, <<>>,
                      {k \in subscribers : after[k].scheduled})
        /\ UNCHANGED <<config, setup_done, entities, self_device_id,
                       subscribers, woken, paired>>

\* ---- properties of MaxThermostat ---------------------------------------
target_temperature(k) == self_target_temperature[k]

\* an hvac_mode that forgets the boost mode
hvac_mode_no_boost(k) ==
    IF self_mode[k] \in {Some(MODE_AUTO)}
    THEN HVAC_MODE_AUTO
    ELSE IF /\ self_mode[k] = Some(MODE_MANUAL)
            /\ self_target_temperature[k] = Some(MIN_TEMPERATURE)
         THEN HVAC_MODE_OFF
         ELSE HVAC_MODE_HEAT

hvac_mode(k) ==
    IF self_mode[k] \in {Some(MODE_AUTO), Some(MODE_BOOST)}
    THEN HVAC_MODE_AUTO
    ELSE IF /\ self_mode[k] = Some(MODE_MANUAL)
            /\ self_target_temperature[k] = Some(MIN_TEMPERATURE)
         THEN HVAC_MODE_OFF
         ELSE HVAC_MODE_HEAT

preset_mode(k) ==
    IF self_mode[k] = Some(MODE_BOOST) THEN PRESET_BOOST ELSE PRESET_NONE

\* Python truthiness of an optional string
Truthy(m) == m # None /\ m # Some("")

\* ---- commands ----------------------------------------------------------
Command(op, k, temperature, arg, calls) ==
    /\ k \in entities
    /\ last' = Op(op, k, temperature, arg, NoPayload, calls, {})
    /\ UNCHANGED <<config, setup_done, entities, self_device_id, cache,
                   subscribers, woken, paired, all_modes_valid>>

\* a set_temperature without the fallback to MODE_MANUAL
set_temperature_calls_no_default(k, target_temperature_arg) ==
    IF target_temperature_arg = None
    THEN <<>>
    ELSE <<Call("set_temperature", self_device_id[k], target_temperature_arg,
                IF self_mode[k] # None THEN self_mode[k][1] ELSE "None")>>

\* the calls set_temperature(temperature=...) makes on the connection
set_temperature_calls(k, target_temperature_arg) ==
    IF target_temperature_arg = None
    THEN <<>>
    ELSE <<Call("set_temperature", self_device_id[k], target_temperature_arg,
                IF Truthy(self_mode[k]) THEN self_mode[k][1]
                ELSE MODE_MANUAL)>>

set_temperature(k, target_temperature_arg) ==
    Command("set_temperature", k, target_temperature_arg, "",
            set_temperature_calls(k, target_temperature_arg))

set_hvac_mode_calls(k, hvac_mode_arg) ==
    IF hvac_mode_arg = HVAC_MODE_OFF
    THEN <<Call("set_temperature", self_device_id[k],
                Some(MIN_TEMPERATURE), MODE_MANUAL)>>
    ELSE IF hvac_mode_arg = HVAC_MODE_AUTO
    THEN <<Call("set_temperature", self_device_id[k],
                self_target_temperature[k], MODE_AUTO)>>
    ELSE <<Call("set_temperature", self_device_id[k],
                self_target_temperature[k], MODE_MANUAL)>>

set_hvac_mode(k, hvac_mode_arg) ==
    Command("set_hvac_mode", k, None, hvac_mode_arg,
            set_hvac_mode_calls(k, hvac_mode_arg))

set_preset_mode_calls(k, preset_mode_arg) ==
    IF preset_mode_arg = PRESET_BOOST
    THEN <<Call("set_temperature", self_device_id[k],
                self_target_temperature[k], MODE_BOOST)>>
    ELSE <<>>

set_preset_mode(k, preset_mode_arg) ==
    Command("set_preset_mode", k, None, preset_mode_arg,
            set_preset_mode_calls(k, preset_mode_arg))

HvacModes == {HVAC_MODE_AUTO, HVAC_MODE_HEAT, HVAC_MODE_OFF}
PresetModes == {PRESET_BOOST, PRESET_NONE}

Next ==
    \/ setup_platform
    \/ \E k \in Keys : async_added_to_hass(k)
    \/ \E payload \in Payloads : dispatch(payload)
    \/ \E k \in Keys, t \in Opt(RequestedTemps) : set_temperature(k, t)
    \/ \E k \in Keys, m \in HvacModes : set_hvac_mode(k, m)
    \/ \E k \in Keys, m \in PresetModes : set_preset_mode(k, m)

Spec == Init /\ [][Next]_vars

\* ---- shared vocabulary of the properties -------------------------------
CommandOps == {"set_temperature", "set_hvac_mode", "set_preset_mode"}

\* the set_temperature calls the last operation made on the connection
SetTemperatureCalls ==
    {last.calls[i] :
        i \in {j \in DOMAIN last.calls : last.calls[j].fn = "set_temperature"}}

\* the calls of the last operation that command a device
DeviceCalls ==
    {last.calls[i] :
        i \in {j \in DOMAIN last.calls :
                  last.calls[j].fn \in {"wakeup", "set_temperature"}}}

\* ---- C1 ----------------------------------------------------------------
\* C1: an update event addressed to an entity's own device id is a partial
\* merge: each of the four cached fields takes the event's value when the
\* event carries one, and otherwise keeps the value it had before.
C1_PartialMerge ==
    [][last'.op = "update" =>
        \A k \in subscribers :
            self_device_id[k] = last'.payload.device_id =>
                /\ self_current_temperature'[k] =
                       IF last'.payload.measured_temperature = None
                       THEN self_current_temperature[k]
                       ELSE last'.payload.measured_temperature
                /\ self_target_temperature'[k] =
                       IF last'.payload.desired_temperature = None
                       THEN self_target_temperature[k]
                       ELSE last'.payload.desired_temperature
                /\ self_mode'[k] =
                       IF last'.payload.mode = None
                       THEN self_mode[k]
                       ELSE last'.payload.mode
                /\ self_battery_low'[k] =
                       IF last'.payload.battery_low = None
                       THEN self_battery_low[k]
                       ELSE last'.payload.battery_low[1]]_vars

\* an event carrying only a measured temperature has been applied to an
\* entity that had a mode and a desired temperature stored
C1_Witness ==
    /\ last.op = "update"
    /\ last.payload.measured_temperature # None
    /\ last.payload.desired_temperature = None
    /\ last.payload.mode = None
    /\ last.payload.battery_low = None
    /\ \E k \in last.scheduled :
           /\ self_current_temperature[k] = last.payload.measured_temperature
           /\ self_mode[k] # None
           /\ self_target_temperature[k] # None

\* ---- C2 ----------------------------------------------------------------
\* C2: every set_temperature call made on the connection carries a
\* temperature inside [MIN_TEMPERATURE, MAX_TEMPERATURE], never an absent
\* or out-of-range one.
C2_TemperatureInRange ==
    \A c \in SetTemperatureCalls :
        /\ c.temperature # None
        /\ c.temperature[1] >= MIN_TEMPERATURE
        /\ c.temperature[1] <= MAX_TEMPERATURE

\* ---- C3 ----------------------------------------------------------------
\* C3: right after set_temperature(t) has sent its command, reading the
\* entity gives target_temperature = t and the mode that was sent.
C3_NoStaleRead ==
    (last.op = "set_temperature" /\ last.calls # <<>>) =>
        /\ target_temperature(last.ent) = last.temperature
        /\ self_mode[last.ent] = Some(last.calls[1].mode)

\* ---- C4 ----------------------------------------------------------------
\* C4: every invocation of set_temperature, set_hvac_mode or
\* set_preset_mode issues a set_temperature call on the connection (the
\* adapter has no path that reports a failure instead).
C4_NoSilentDrop ==
    last.op \in CommandOps => SetTemperatureCalls # {}

\* ---- C5 ----------------------------------------------------------------
\* C5: an update event whose device id differs from an entity's own id
\* changes none of that entity's four cached fields and schedules no state
\* write for it, so an event touches only the entities whose id it names.
C5_ForeignEventIgnored ==
    [][last'.op = "update" =>
        \A k \in Keys :
            self_device_id[k] # last'.payload.device_id =>
                /\ self_current_temperature'[k] = self_current_temperature[k]
                /\ self_target_temperature'[k] = self_target_temperature[k]
                /\ self_mode'[k] = self_mode[k]
                /\ self_battery_low'[k] = self_battery_low[k]
                /\ k \notin last'.scheduled]_vars

\* two entities with different ids are subscribed, both have received
\* data, and the event just dispatched reached exactly one of them
C5_Witness ==
    /\ last.op = "update"
    /\ \E k1 \in subscribers, k2 \in subscribers :
           /\ self_device_id[k1] # self_device_id[k2]
           /\ last.payload.device_id = self_device_id[k1]
           /\ last.payload.mode # None
           /\ last.scheduled = {k1}
           /\ self_mode[k1] = last.payload.mode
           /\ self_current_temperature[k2] # None
           /\ self_mode[k2] # last.payload.mode

\* ---- C6 ----------------------------------------------------------------
\* C6: every wakeup or set_temperature call made on the connection names a
\* device id that was passed to add_paired_device before, and the
\* construction of the entities pairs each of them exactly once.
C6_PairedBeforeCommand ==
    /\ \A c \in DeviceCalls : c.device_id \in paired
    /\ last.op = "setup_platform" =>
           /\ Len(last.calls) = Cardinality(entities)
           /\ \A i \in DOMAIN last.calls :
                  last.calls[i].fn = "add_paired_device"
    /\ \A k \in entities : self_device_id[k] \in paired

\* a command was issued for an entity that is not even subscribed yet
C6_Witness ==
    /\ last.op \in CommandOps
    /\ last.ent \notin subscribers
    /\ \E c \in SetTemperatureCalls : c.device_id \in paired

\* ---- C7 ----------------------------------------------------------------
\* C7: hvac_mode is AUTO when the cached mode is auto or boost, OFF exactly
\* when the mode is manual and the desired temperature is MIN_TEMPERATURE,
\* and HEAT otherwise (also when no mode was received); preset_mode is
\* BOOST exactly when the mode is boost.
C7_HvacModeTable ==
    \A k \in entities :
        LET m == self_mode[k]
            t == self_target_temperature[k]
            isAuto == (m = Some("auto") \/ m = Some("boost"))
            isOff == (m = Some("manual") /\ t = Some(MIN_TEMPERATURE))
        IN  /\ isAuto => hvac_mode(k) = "hvac_auto"
            /\ (hvac_mode(k) = "hvac_off") <=> isOff
            /\ (~isAuto /\ ~isOff) => hvac_mode(k) = "hvac_heat"
            /\ m = None => hvac_mode(k) = "hvac_heat"
            /\ (preset_mode(k) = "preset_boost") <=> (m = Some("boost"))
            /\ preset_mode(k) \in {"preset_boost", "preset_none"}

\* one entity boosts while set to MIN_TEMPERATURE, another one reports HEAT
C7_Witness ==
    /\ \E k \in entities :
           /\ self_mode[k] = Some("boost")
           /\ self_target_temperature[k] = Some(MIN_TEMPERATURE)
           /\ hvac_mode(k) = "hvac_auto"
           /\ preset_mode(k) = "preset_boost"
    /\ \E k \in entities : hvac_mode(k) = "hvac_heat"

\* ---- C8 ----------------------------------------------------------------
\* C8: as long as every update event carried a mode from {auto, manual,
\* boost} or none, every set_temperature call carries a mode from that set:
\* set_temperature sends the last received mode, or manual when there is
\* none; set_hvac_mode sends manual for OFF and HEAT and auto for AUTO;
\* set_preset_mode(BOOST) sends boost.
C8_SentModeValid ==
    all_modes_valid =>
        /\ \A c \in SetTemperatureCalls : c.mode \in {"auto", "manual", "boost"}
        /\ \A c \in SetTemperatureCalls :
               /\ last.op = "set_temperature" =>
                      c.mode = IF self_mode[last.ent] = None THEN "manual"
                               ELSE self_mode[last.ent][1]
               /\ last.op = "set_hvac_mode" =>
                      c.mode = IF last.arg = "hvac_auto" THEN "auto"
                               ELSE "manual"
               /\ last.op = "set_preset_mode" => c.mode = "boost"

\* set_temperature has sent a received mode other than the default
C8_Witness ==
    /\ all_modes_valid
    /\ last.op = "set_temperature"
    /\ \E c \in SetTemperatureCalls :
           c.mode = "boost" /\ self_mode[last.ent] = Some("boost")

\* ---- C9 ----------------------------------------------------------------
\* the update event a device sends back for a command: exactly the
\* command's temperature and mode
Echo(c) ==
    [device_id |-> c.device_id, measured_temperature |-> None,
     desired_temperature |-> c.temperature, mode |-> Some(c.mode),
     battery_low |-> None]

\* C9: after set_hvac_mode(m) and the update event echoing the command's
\* temperature and mode, hvac_mode returns m.
C9_HvacModeRoundTrip ==
    [][\A k \in subscribers :
          (/\ last.op = "set_hvac_mode"
           /\ last.ent = k
           /\ last'.op = "update"
           /\ last'.payload = Echo(last.calls[1]))
          => hvac_mode(k)' = last.arg]_vars

\* ---- C10 ---------------------------------------------------------------
\* C10: an entity's update handler is connected to the signal before the
\* wakeup request for its device is sent, so every update event for a
\* woken entity's device reaches that entity's handler.
C10_SubscribedBeforeWakeup ==
    /\ woken \subseteq subscribers
    /\ last.op = "wakeup" => last.ent \in subscribers
    /\ last.op = "update" =>
           \A k \in woken :
               self_device_id[k] = last.payload.device_id =>
                   k \in last.scheduled

\* an update for a woken entity's device has been handled by that entity
C10_Witness ==
    /\ last.op = "update"
    /\ \E k \in woken :
           /\ self_device_id[k] = last.payload.device_id
           /\ k \in last.scheduled
           /\ self_current_temperature[k] = last.payload.measured_temperature
           /\ last.payload.measured_temperature # None
====
